---- MODULE Spec2Model ----
(***************************************************************************)
(* Flight tracking service (app.py): the ingest and track request handlers *)
(* over the two MongoDB collections active_flights and flight_logs.        *)
(*                                                                         *)
(* Every collection operation (find_one, insert_one, update_one,           *)
(* delete_one) is one atomic step; a handler is a sequence of such steps.  *)
(* Flask serves requests on concurrent threads, so the steps of different  *)
(* handlers interleave (Spec).  SeqSpec is the same machine with requests  *)
(* served one at a time.                                                   *)
(***************************************************************************)
EXTENDS Integers, Sequences, FiniteSets, TLC

\* ------------------------------------------------------------------ bounds
NumProcs == 2      \* request handler threads
MaxCalls == 2      \* ingest requests accepted in one behaviour

Procs == 1..NumProcs

\* ------------------------------------------------------- request contents
Ids == {"PK301", "PK999"}

required_fields == <<"flight_number", "latitude", "longitude",
                     "altitude", "speed", "timestamp">>

RequiredSet == {required_fields[i] : i \in DOMAIN required_fields}

\* A JSON value of the request body: a number, or a string.
Num(n) == [t |-> "num", v |-> n]
Str(s) == [t |-> "str", v |-> s]

\* status values a body may carry; NoStatus is a body without the key.
NoStatus == "<absent>"

Sample0 ==
  [latitude |-> Num(31), longitude |-> Num(74), altitude |-> Num(1000),
   speed |-> Num(150), timestamp |-> Str("T0")]

Sample1 ==
  [latitude |-> Num(24), longitude |-> Num(67), altitude |-> Str("35000"),
   speed |-> Num(480), heading |-> Num(90), timestamp |-> Str("T1")]

\* Telemetry the producer sends: a sample and the status sent with it.  The
\* second sample carries its altitude as a numeric string and a heading; the
\* first has neither heading nor status.  Timestamps are opaque strings, and
\* "T1" is sent before or after "T0".
Telemetry ==
  { <<Sample0, NoStatus>>, <<Sample1, "delayed">>, <<Sample1, "landed">> }

\* A later sample that repeats the timestamp "T0" with another altitude.
Sample2 ==
  [latitude |-> Num(31), longitude |-> Num(74), altitude |-> Num(35000),
   speed |-> Num(150), timestamp |-> Str("T0")]

WithKey(f, k, v) == [x \in DOMAIN f \cup {k} |-> IF x = k THEN v ELSE f[x]]

Drop(f, K) == [x \in DOMAIN f \ K |-> f[x]]

Body(id, s, st) ==
  LET b == WithKey(s, "flight_number", Str(id))
  IN  IF st = NoStatus THEN b ELSE WithKey(b, "status", Str(st))

GoodBodies == {Body(id, t[1], t[2]) : id \in Ids, t \in Telemetry}

RepeatBodies == {Body(id, Sample2, NoStatus) : id \in Ids}

\* ------------------------------------------------------------ conversions
FloatError == "ValueError"

\* the numeric strings requests carry, with the numbers they spell
NumericStrings ==
  [s \in {"1000", "35000", "30000", "40000", "400", "200"} |->
     CASE s = "1000"  -> 1000
       [] s = "35000" -> 35000
       [] s = "30000" -> 30000
       [] s = "40000" -> 40000
       [] s = "400"   -> 400
       [] s = "200"   -> 200]

\* float(x): numbers convert to themselves, a numeric string to the number it
\* spells, any other string raises ValueError.
float(x) ==
  IF x.t = "num" THEN x.v
  ELSE IF x.v \in DOMAIN NumericStrings THEN NumericStrings[x.v]
  ELSE FloatError

\* float(x) raises
Raises(x) == x.t = "str" /\ x.v \notin DOMAIN NumericStrings

\* data.get(key, default)
Get(data, k, default) == IF k \in DOMAIN data THEN data[k] ELSE default

\* ---------------------------------------------------------------- state
VARIABLES
  active_flights,   \* collection: sequence of documents in natural order
  flight_logs,      \* collection: sequence of documents in natural order
  pc,               \* per handler thread: position in its handler
  data,             \* per handler thread: the request being served
  existing_flight,  \* per thread: truthiness of the find_one result (line 82)
  flight_data,      \* per thread: the document read back at line 110, or <<>>
  clock,            \* datetime.utcnow(), counted in accepted ingest requests
  sent,             \* history: per id, the accepted ingest requests in order
  applied,          \* history: ids whose first ingest has written
  last,             \* history: the most recently completed request
  simulator,        \* simulator thread: its FlightSimulator and its position
  posted            \* history: the simulator's ingest calls, in order

vars == <<active_flights, flight_logs, pc, data, existing_flight,
          flight_data, clock, sent, applied, last,
          simulator, posted>>

stores == <<active_flights, flight_logs>>

locals == <<existing_flight, flight_data>>

producer == <<simulator, posted>>

NoData == [kind |-> "none"]

None == [none |-> TRUE]

\* ----------------------------------------------------- request bodies
\* A complete body with every optional key, from which the incomplete and
\* the malformed bodies are derived.
BaseBody == Body("PK301", Sample1, "landed")

NumericFields == {"latitude", "longitude", "altitude", "speed", "heading"}

\* bodies lacking one required key, two of them, or all of them
MissingBodies ==
  {Drop(BaseBody, K) :
     K \in {{f} : f \in RequiredSet} \cup {{"speed", "latitude"}, RequiredSet}}

\* bodies with every key, one numeric key holding a non-numeric string
MalformedBodies ==
  {[BaseBody EXCEPT ![f] = Str("abc")] : f \in NumericFields}

\* an error message that always names the first required field
FirstMissingWrong(b) == required_fields[1]

\* lines 63-67: the first required field, in list order, the body lacks
FirstMissing(b) ==
  LET i == CHOOSE i \in DOMAIN required_fields :
             /\ required_fields[i] \notin DOMAIN b
             /\ \A j \in 1..(i-1) : required_fields[j] \in DOMAIN b
  IN  required_fields[i]

HasAllRequired(b) == RequiredSet \subseteq DOMAIN b

\* lines 72-79, before the float() results are known to be numbers
position_update(b) ==
  [latitude  |-> float(b["latitude"]),
   longitude |-> float(b["longitude"]),
   altitude  |-> float(b["altitude"]),
   speed     |-> float(b["speed"]),
   heading   |-> float(Get(b, "heading", Num(0))),
   timestamp |-> b["timestamp"].v]

Coercible(b) ==
  \A f \in NumericFields : ~Raises(Get(b, f, Num(0)))

\* data.get('status', 'in_flight') and data.get('status')
StatusOrDefault(b) == Get(b, "status", Str("in_flight")).v

StatusOf(b) == Get(b, "status", Str(NoStatus)).v

\* ------------------------------------------------- collection operations
Matches(coll, fn) == {i \in DOMAIN coll : coll[i].flight_number = fn}

FirstMatch(coll, fn) ==
  CHOOSE i \in Matches(coll, fn) : \A j \in Matches(coll, fn) : i <= j

\* find_one({"flight_number": fn}): the first match in natural order, as a
\* sequence of zero or one documents
find_one(coll, fn) ==
  IF Matches(coll, fn) = {} THEN <<>> ELSE <<coll[FirstMatch(coll, fn)]>>

insert_one(coll, doc) == Append(coll, doc)

\* an update that keeps the history sorted by timestamp instead of in
\* arrival order
update_one_sorted(coll, fn, pos, status, now) ==
  IF Matches(coll, fn) = {} THEN coll
  ELSE [coll EXCEPT ![FirstMatch(coll, fn)] =
          [@ EXCEPT !.position_history =
                      IF pos.timestamp = "T0" THEN <<pos>> \o @
                      ELSE Append(@, pos),
                    !.current_position = pos,
                    !.last_update = now,
                    !.status = status]]

\* an update that sets current_position and forgets the $push
update_one_no_push(coll, fn, pos, status, now) ==
  IF Matches(coll, fn) = {} THEN coll
  ELSE [coll EXCEPT ![FirstMatch(coll, fn)] =
          [@ EXCEPT !.current_position = pos,
                    !.last_update = now,
                    !.status = status]]

\* an update that pushes the position and leaves the stored status alone
update_one_keep_status(coll, fn, pos, status, now) ==
  IF Matches(coll, fn) = {} THEN coll
  ELSE [coll EXCEPT ![FirstMatch(coll, fn)] =
          [@ EXCEPT !.position_history = Append(@, pos),
                    !.current_position = pos,
                    !.last_update = now]]

\* update_one with $push and $set (lines 85-95): one atomic document write
\* on the first match; no match, no write (there is no upsert)
update_one(coll, fn, pos, status, now) ==
  IF Matches(coll, fn) = {} THEN coll
  ELSE [coll EXCEPT ![FirstMatch(coll, fn)] =
          [@ EXCEPT !.position_history = Append(@, pos),
                    !.current_position = pos,
                    !.last_update = now,
                    !.status = status]]

\* a delete whose filter is lost: the first document goes, whatever its id
delete_one_any(coll, fn) ==
  IF coll = <<>> THEN coll ELSE Tail(coll)

delete_one(coll, fn) ==
  IF Matches(coll, fn) = {} THEN coll
  ELSE LET k == FirstMatch(coll, fn)
       IN  [i \in 1..(Len(coll) - 1) |-> IF i < k THEN coll[i] ELSE coll[i + 1]]

\* lines 98-105
flight_doc(fn, pos, status, now) ==
  [flight_number    |-> fn,
   status           |-> status,
   current_position |-> pos,
   position_history |-> <<pos>>,
   created_at       |-> now,
   last_update      |-> now]

\* lines 114-120
log_entry(fn, fd, now) ==
  [flight_number    |-> fn,
   position_history |-> fd.position_history,
   flight_start     |-> fd.created_at,
   flight_end       |-> now,
   total_positions  |-> Len(fd.position_history)]

\* ------------------------------------------------------------------ Init
\* no simulator thread runs
NoFlight == [at |-> "none"]

Init ==
  /\ active_flights = <<>>
  /\ flight_logs = <<>>
  /\ pc = [p \in Procs |-> "idle"]
  /\ data = [p \in Procs |-> NoData]
  /\ existing_flight = [p \in Procs |-> FALSE]
  /\ flight_data = [p \in Procs |-> <<>>]
  /\ clock = 0
  /\ sent = [id \in Ids |-> <<>>]
  /\ applied = {}
  /\ last = [kind |-> "none", code |-> 0]
  /\ simulator = NoFlight
  /\ posted = <<>>

Quiet == \A p \in Procs : pc[p] = "idle"

\* a request is picked up by the first free handler thread
Free(p) == pc[p] = "idle" /\ \A q \in 1..(p - 1) : pc[q] # "idle"

\* the handler returns: the thread is free again and the response is recorded
Respond(p, r) ==
  /\ pc' = [pc EXCEPT ![p] = "idle"]
  /\ data' = [data EXCEPT ![p] = NoData]
  /\ existing_flight' = [existing_flight EXCEPT ![p] = FALSE]
  /\ flight_data' = [flight_data EXCEPT ![p] = <<>>]
  /\ last' = r

IngestOk(b, msg) ==
  [kind |-> "ingest", body |-> b, code |-> 200, message |-> msg]

\* ------------------------------------------- POST /api/flights/ingest
\* lines 63-67: a required field is missing
IngestMissingField(p, b) ==
  /\ Free(p)
  /\ ~HasAllRequired(b)
  /\ Respond(p, [kind |-> "ingest", body |-> b, code |-> 400,
                 error |-> "Missing required field: ",
                 field |-> FirstMissing(b)])
  /\ UNCHANGED <<stores, clock, sent, applied>>
  /\ UNCHANGED producer

\* lines 72-79 raise ValueError, caught at lines 136-137
IngestNotNumeric(p, b) ==
  /\ Free(p)
  /\ HasAllRequired(b)
  /\ ~Coercible(b)
  /\ Respond(p, [kind |-> "ingest", body |-> b, code |-> 500,
                 error |-> FloatError])
  /\ UNCHANGED <<stores, clock, sent, applied>>
  /\ UNCHANGED producer

\* lines 57-82: the body validates and the handler looks the flight up
IngestFind(p, b) ==
  /\ Free(p)
  /\ HasAllRequired(b)
  /\ Coercible(b)
  /\ clock < MaxCalls
  /\ clock' = clock + 1
  /\ data' = [data EXCEPT ![p] = [kind |-> "ingest", body |-> b]]
  /\ existing_flight' =
       [existing_flight EXCEPT ![p] =
          find_one(active_flights, b["flight_number"].v) # <<>>]
  /\ sent' = [sent EXCEPT ![b["flight_number"].v] =
                Append(@, [position |-> position_update(b),
                           terminal |-> StatusOf(b) = "landed"])]
  /\ pc' = [pc EXCEPT ![p] = "write"]
  /\ UNCHANGED <<stores, flight_data, applied, last>>
  /\ UNCHANGED producer

\* lines 84-109: update the document or insert a new one, then branch on
\* the status of this call
IngestWrite(p) ==
  /\ pc[p] = "write"
  /\ LET b  == data[p].body
         fn == b["flight_number"].v
     IN  /\ active_flights' =
              IF existing_flight[p]
              THEN update_one(active_flights, fn, position_update(b),
                              StatusOrDefault(b), clock)
              ELSE insert_one(active_flights,
                              flight_doc(fn, position_update(b),
                                         StatusOrDefault(b), clock))
         /\ applied' = applied \cup {fn}
         /\ IF StatusOf(b) = "landed"
            THEN /\ pc' = [pc EXCEPT ![p] = "landed"]
                 /\ UNCHANGED <<data, locals, last>>
            ELSE Respond(p, IngestOk(b, "Flight data ingested successfully"))
  /\ UNCHANGED <<flight_logs, clock, sent>>
  /\ UNCHANGED producer

\* lines 110-112: read the document back
IngestReadBack(p) ==
  /\ pc[p] = "landed"
  /\ LET b  == data[p].body
         fd == find_one(active_flights, b["flight_number"].v)
     IN  IF fd = <<>>
         THEN Respond(p, IngestOk(b, "Flight data ingested successfully"))
         ELSE /\ flight_data' = [flight_data EXCEPT ![p] = fd]
              /\ pc' = [pc EXCEPT ![p] = "archive"]
              /\ UNCHANGED <<data, existing_flight, last>>
  /\ UNCHANGED <<stores, clock, sent, applied>>
  /\ UNCHANGED producer

\* a landing that skips the log insert and goes on to the delete
IngestArchiveNoInsert(p) ==
  /\ pc[p] = "archive"
  /\ pc' = [pc EXCEPT ![p] = "delete"]
  /\ UNCHANGED <<stores, data, locals, clock, sent, applied, last>>
  /\ UNCHANGED producer

\* a landing that replaces the log entry its id already has (an upsert by id)
IngestArchiveUpsert(p) ==
  /\ pc[p] = "archive"
  /\ LET fn    == data[p].body["flight_number"].v
         entry == log_entry(fn, flight_data[p][1], clock)
     IN  flight_logs' =
           IF Matches(flight_logs, fn) = {}
           THEN insert_one(flight_logs, entry)
           ELSE [flight_logs EXCEPT ![FirstMatch(flight_logs, fn)] = entry]
  /\ pc' = [pc EXCEPT ![p] = "delete"]
  /\ UNCHANGED <<active_flights, data, locals, clock, sent, applied, last>>
  /\ UNCHANGED producer

\* lines 114-121: insert the log entry built from the document read back
IngestArchive(p) ==
  /\ pc[p] = "archive"
  /\ flight_logs' =
       insert_one(flight_logs,
                  log_entry(data[p].body["flight_number"].v,
                            flight_data[p][1], clock))
  /\ pc' = [pc EXCEPT ![p] = "delete"]
  /\ UNCHANGED <<active_flights, data, locals, clock, sent, applied, last>>
  /\ UNCHANGED producer

\* lines 123-129: remove the flight from the active collection
IngestDelete(p) ==
  /\ pc[p] = "delete"
  /\ active_flights' =
       delete_one(active_flights, data[p].body["flight_number"].v)
  /\ Respond(p, IngestOk(data[p].body, "Flight landed and moved to logs"))
  /\ UNCHANGED <<flight_logs, clock, sent, applied>>
  /\ UNCHANGED producer

\* line 124 raises (the database is unreachable) and lines 136-137 answer 500,
\* or the process dies there: the log entry is written, the document stays
DeleteError == "delete_one failed"

IngestDeleteFails(p) ==
  /\ pc[p] = "delete"
  /\ Respond(p, [kind |-> "ingest", body |-> data[p].body, code |-> 500,
                 error |-> DeleteError])
  /\ UNCHANGED <<stores, clock, sent, applied>>
  /\ UNCHANGED producer

\* ------------------------------------ GET /api/flights/track/<flight_number>
\* request.args.get('timestamp') of a request without the parameter
NoTimestamp == "<none>"

Timestamps == {"T0", "T1"}

\* lines 177-181: the first position whose timestamp equals the argument
PositionsAt(hist, ts) == {i \in DOMAIN hist : hist[i].timestamp = ts}

\* a view that fills current_position from the history when the document
\* has none
TrackViewFillsCurrent(flight, fn, ts, known, src) ==
  LET hist == flight.position_history
      req  == [kind |-> "track", flight_number |-> fn, at |-> ts,
               known |-> known, source |-> src]
  IN  IF ts # NoTimestamp
      THEN IF PositionsAt(hist, ts) # {}
           THEN req @@
                [code |-> 200, timestamp |-> ts,
                 position |-> hist[CHOOSE i \in PositionsAt(hist, ts) :
                                    \A j \in PositionsAt(hist, ts) : i <= j]]
           ELSE req @@ [code |-> 404,
                        error |-> "No position data for that timestamp"]
      ELSE req @@ [code |-> 200,
                   status |-> Get(flight, "status", "completed"),
                   current_position |->
                     Get(flight, "current_position", hist[Len(hist)]),
                   position_history |-> hist,
                   total_updates |-> Len(hist)]

\* a scan without the break: the last position with that timestamp wins
TrackViewLastMatch(flight, fn, ts, known, src) ==
  LET hist == flight.position_history
      req  == [kind |-> "track", flight_number |-> fn, at |-> ts,
               known |-> known, source |-> src]
  IN  IF ts # NoTimestamp
      THEN IF PositionsAt(hist, ts) # {}
           THEN req @@
                [code |-> 200, timestamp |-> ts,
                 position |-> hist[CHOOSE i \in PositionsAt(hist, ts) :
                                    \A j \in PositionsAt(hist, ts) : j <= i]]
           ELSE req @@ [code |-> 404,
                        error |-> "No position data for that timestamp"]
      ELSE req @@ [code |-> 200,
                   status |-> Get(flight, "status", "completed"),
                   current_position |-> Get(flight, "current_position", None),
                   position_history |-> hist,
                   total_updates |-> Len(hist)]

\* lines 172-203 for the document `flight`; src records the collection the
\* document came from
TrackView(flight, fn, ts, known, src) ==
  LET hist == flight.position_history
      req  == [kind |-> "track", flight_number |-> fn, at |-> ts,
               known |-> known, source |-> src]
  IN  IF ts # NoTimestamp
      THEN IF PositionsAt(hist, ts) # {}
           THEN req @@
                [code |-> 200, timestamp |-> ts,
                 position |-> hist[CHOOSE i \in PositionsAt(hist, ts) :
                                    \A j \in PositionsAt(hist, ts) : i <= j]]
           ELSE req @@ [code |-> 404,
                        error |-> "No position data for that timestamp"]
      ELSE req @@ [code |-> 200,
                   status |-> Get(flight, "status", "completed"),
                   current_position |-> Get(flight, "current_position", None),
                   position_history |-> hist,
                   total_updates |-> Len(hist)]

\* a lookup that consults the logs before the active collection
TrackFindLogsFirst(p, fn, ts) ==
  /\ Free(p)
  /\ LET logged == find_one(flight_logs, fn)
         flight == find_one(active_flights, fn)
     IN  IF logged # <<>>
         THEN Respond(p, TrackView(WithKey(logged[1], "status", "completed"),
                                   fn, ts, fn \in applied, "logs"))
         ELSE IF flight # <<>>
         THEN Respond(p, TrackView(flight[1], fn, ts, fn \in applied, "active"))
         ELSE /\ pc' = [pc EXCEPT ![p] = "track_logs"]
              /\ data' = [data EXCEPT ![p] =
                            [kind |-> "track", flight_number |-> fn,
                             at |-> ts, known |-> fn \in applied]]
              /\ UNCHANGED <<locals, last>>
  /\ UNCHANGED <<stores, clock, sent, applied>>
  /\ UNCHANGED producer

\* lines 160-164: look in the active collection; a hit is answered at once
TrackFindActive(p, fn, ts) ==
  /\ Free(p)
  /\ LET flight == find_one(active_flights, fn)
     IN  IF flight # <<>>
         THEN Respond(p, TrackView(flight[1], fn, ts, fn \in applied, "active"))
         ELSE /\ pc' = [pc EXCEPT ![p] = "track_logs"]
              /\ data' = [data EXCEPT ![p] =
                            [kind |-> "track", flight_number |-> fn,
                             at |-> ts, known |-> fn \in applied]]
              /\ UNCHANGED <<locals, last>>
  /\ UNCHANGED <<stores, clock, sent, applied>>
  /\ UNCHANGED producer

\* a lookup that writes the status it reports back into the log entry
TrackFindLogsTagsEntry(p) ==
  /\ pc[p] = "track_logs"
  /\ LET d      == data[p]
         flight == find_one(flight_logs, d.flight_number)
     IN  IF flight = <<>>
         THEN /\ Respond(p, [kind |-> "track", flight_number |-> d.flight_number,
                             at |-> d.at, known |-> d.known, source |-> "none",
                             code |-> 404, error |-> "Flight not found"])
              /\ UNCHANGED stores
         ELSE /\ Respond(p, TrackView(WithKey(flight[1], "status", "completed"),
                                      d.flight_number, d.at, d.known, "logs"))
              /\ flight_logs' =
                   [flight_logs EXCEPT ![FirstMatch(flight_logs, d.flight_number)] =
                      WithKey(@, "status", "completed")]
              /\ UNCHANGED active_flights
  /\ UNCHANGED <<clock, sent, applied>>
  /\ UNCHANGED producer

\* lines 165-170: not active, look in the logs
TrackFindLogs(p) ==
  /\ pc[p] = "track_logs"
  /\ LET d      == data[p]
         flight == find_one(flight_logs, d.flight_number)
     IN  IF flight = <<>>
         THEN Respond(p, [kind |-> "track", flight_number |-> d.flight_number,
                          at |-> d.at, known |-> d.known, source |-> "none",
                          code |-> 404, error |-> "Flight not found"])
         ELSE Respond(p, TrackView(WithKey(flight[1], "status", "completed"),
                                   d.flight_number, d.at, d.known, "logs"))
  /\ UNCHANGED <<stores, clock, sent, applied>>
  /\ UNCHANGED producer

\* ------------------------------------------------ GET /api/flights/search
\* the characters of the flight numbers
Chars ==
  [id \in Ids |->
     IF id = "PK301" THEN <<"P", "K", "3", "0", "1">>
     ELSE <<"P", "K", "9", "9", "9">>]

\* the letters that occur in flight numbers and search texts
Lower(c) == IF c = "P" THEN "p" ELSE IF c = "K" THEN "k" ELSE c

IsSpace(c) == c = " "

\* str.strip(): drop the white space at both ends
RECURSIVE LStrip(_)
LStrip(t) ==
  IF t # <<>> /\ IsSpace(t[1]) THEN LStrip(Tail(t)) ELSE t

RECURSIVE RStrip(_)
RStrip(t) ==
  IF t # <<>> /\ IsSpace(t[Len(t)]) THEN RStrip(SubSeq(t, 1, Len(t) - 1)) ELSE t

Strip(t) == RStrip(LStrip(t))

\* one pattern character against one text character under the option 'i':
\* "." matches every character, any other modelled character matches itself
\* in either case
CharMatches(pch, tch) == pch = "." \/ Lower(pch) = Lower(tch)

\* {'$regex': pat, '$options': 'i'}: the pattern, made of literal characters
\* and ".", matches somewhere in the text
RegexSearch(pat, text) ==
  \E off \in 0..(Len(text) - Len(pat)) :
    \A k \in 1..Len(pat) : CharMatches(pat[k], text[off + k])

NumericArgs == {"min_altitude", "max_altitude", "min_speed", "max_speed"}

\* lines 271-309: the query document, applied to one active document
ActiveQuery(args, doc) ==
  /\ "flight_number" \in DOMAIN args =>
       RegexSearch(Strip(args["flight_number"]), Chars[doc.flight_number])
  /\ "status" \in DOMAIN args => doc.status = args["status"]
  /\ "min_altitude" \in DOMAIN args =>
       doc.current_position.altitude >= float(Str(args["min_altitude"]))
  /\ "max_altitude" \in DOMAIN args =>
       doc.current_position.altitude <= float(Str(args["max_altitude"]))
  /\ "min_speed" \in DOMAIN args =>
       doc.current_position.speed >= float(Str(args["min_speed"]))
  /\ "max_speed" \in DOMAIN args =>
       doc.current_position.speed <= float(Str(args["max_speed"]))

\* lines 317-323: the query document for the logs
LogsQuery(args, doc) ==
  "flight_number" \in DOMAIN args =>
    RegexSearch(Strip(args["flight_number"]), Chars[doc.flight_number])

\* lines 326-328: every logged result is tagged completed
RECURSIVE TagCompleted(_)
TagCompleted(docs) ==
  IF docs = <<>> THEN <<>>
  ELSE <<WithKey(docs[1], "status", "completed")>> \o TagCompleted(Tail(docs))

\* lines 312-328: active matches, then the logged matches when no status is
\* asked for or the status asked for is completed
SearchResults(args) ==
  SelectSeq(active_flights, LAMBDA d : ActiveQuery(args, d))
  \o (IF "status" \notin DOMAIN args \/ args["status"] = "completed"
      THEN TagCompleted(SelectSeq(flight_logs, LAMBDA d : LogsQuery(args, d)))
      ELSE <<>>)

\* the whole handler (lines 270-350); served alone, its two finds read the
\* collections in one state
hybrid_search(p, args) ==
  /\ Free(p)
  /\ IF \E a \in NumericArgs \cap DOMAIN args : Raises(Str(args[a]))
     THEN Respond(p, [kind |-> "search", args |-> args, code |-> 400,
                      error |-> "Invalid numeric value"])
     ELSE Respond(p, [kind |-> "search", args |-> args, code |-> 200,
                      results |-> SearchResults(args),
                      count |-> Len(SearchResults(args)),
                      message |-> "Hybrid search completed successfully"])
  /\ UNCHANGED <<stores, clock, sent, applied>>
  /\ UNCHANGED producer

\* the criteria clients send
SearchArgs ==
  { <<>>,
    [flight_number |-> <<"p", "k">>],
    [flight_number |-> <<"3", "0">>],
    [flight_number |-> <<"P", ".", "3">>],
    [status |-> "delayed"],
    [status |-> "completed"],
    [flight_number |-> <<"9", "9">>, status |-> "completed"],
    [min_altitude |-> "35000", max_altitude |-> "40000"],
    [max_altitude |-> "1000"],
    [min_altitude |-> "30000", max_speed |-> "200"],
    [min_speed |-> "400"],
    [min_altitude |-> "abc"] }

\* ------------------------- GET /api/flights/active and /api/flights/logs
\* the whole handler (lines 212-223)
get_active_flights(p) ==
  /\ Free(p)
  /\ Respond(p, [kind |-> "active", code |-> 200,
                 active_flights |-> active_flights,
                 count |-> Len(active_flights)])
  /\ UNCHANGED <<stores, clock, sent, applied>>
  /\ UNCHANGED producer

\* line 234: the number of log entries a listing returns at most
LogsLimit == 50

\* cursor.limit(n): the first n documents in natural order
\* a cursor that returns every document, whatever n is
limit_all(coll, n) == coll

limit(coll, n) == SubSeq(coll, 1, IF Len(coll) < n THEN Len(coll) ELSE n)

\* the whole handler (lines 233-243); the query string args is not read
get_flight_logs(p, args) ==
  /\ Free(p)
  /\ Respond(p, [kind |-> "logs", args |-> args, code |-> 200,
                 flight_logs |-> limit(flight_logs, LogsLimit),
                 count |-> Len(limit(flight_logs, LogsLimit))])
  /\ UNCHANGED <<stores, clock, sent, applied>>
  /\ UNCHANGED producer

\* the query strings clients send with a listing of the logs
LogsArgs == { <<>>, [limit |-> "1"], [limit |-> "60"] }

\* ------------------------------------------------ simulate_realtime.py
\* The routes of the simulator. A flight moves on the straight line from start
\* to end, so its position is its distance to the target, in 1/10000 degree.
FLIGHT_ROUTES ==
  { [flight_number |-> "PK301", distance |-> 99240,  cruise_altitude |-> 35000, cruise_speed |-> 480],
    [flight_number |-> "PK456", distance |-> 106968, cruise_altitude |-> 34000, cruise_speed |-> 470],
    [flight_number |-> "PA201", distance |-> 25300,  cruise_altitude |-> 32000, cruise_speed |-> 450],
    [flight_number |-> "PK785", distance |-> 195894, cruise_altitude |-> 38000, cruise_speed |-> 500],
    [flight_number |-> "EK542", distance |-> 200003, cruise_altitude |-> 37000, cruise_speed |-> 490],
    [flight_number |-> "QR101", distance |-> 230308, cruise_altitude |-> 36000, cruise_speed |-> 485],
    [flight_number |-> "FZ150", distance |-> 116420, cruise_altitude |-> 35500, cruise_speed |-> 475],
    [flight_number |-> "AA123", distance |-> 725140, cruise_altitude |-> 41000, cruise_speed |-> 520],
    [flight_number |-> "BA260", distance |-> 725140, cruise_altitude |-> 42000, cruise_speed |-> 530],
    [flight_number |-> "TK710", distance |-> 465132, cruise_altitude |-> 39000, cruise_speed |-> 510] }

Min(a, b) == IF a < b THEN a ELSE b

Max(a, b) == IF a > b THEN a ELSE b

\* FlightSimulator.__init__, and the thread about to send the first position
FlightSimulator(flight_info) ==
  [at              |-> "start",
   flight_number   |-> flight_info.flight_number,
   distance        |-> flight_info.distance,
   cruise_altitude |-> flight_info.cruise_altitude,
   cruise_speed    |-> flight_info.cruise_speed,
   altitude        |-> 0,
   speed           |-> 0,
   phase           |-> "ground",
   updates_sent    |-> 0,
   completed       |-> FALSE]

\* lines 232-235: 8% of the remaining way
Move(f) == [f EXCEPT !.distance = (@ * 92) \div 100]

\* update_position: the simulator after the call, completed its return value
update_position(f) ==
  IF f.distance < 3000
  THEN [f EXCEPT !.phase = "landed", !.altitude = 0, !.speed = 0,
                 !.completed = TRUE]
  ELSE CASE f.phase = "ground" ->
              Move([f EXCEPT !.phase = "climbing", !.speed = 150,
                             !.altitude = 1000, !.completed = FALSE])
         [] f.phase = "climbing" ->
              LET a == Min(f.altitude + 2500, f.cruise_altitude)
              IN  Move([f EXCEPT !.altitude = a,
                                 !.speed = Min(f.speed + 50, f.cruise_speed),
                                 !.phase = IF a >= f.cruise_altitude
                                           THEN "cruising" ELSE "climbing",
                                 !.completed = FALSE])
         [] f.phase = "cruising" ->
              Move([f EXCEPT !.phase = IF f.distance < 40000
                                       THEN "descending" ELSE "cruising",
                             !.completed = FALSE])
         [] f.phase = "descending" ->
              LET a == Max(f.altitude - 3000, 0)
                  g == [f EXCEPT !.altitude = a,
                                 !.speed = Max(f.speed - 60, 150)]
              IN  IF a <= 0
                  THEN [g EXCEPT !.phase = "landed", !.completed = TRUE]
                  ELSE Move([g EXCEPT !.completed = FALSE])
         [] OTHER -> Move([f EXCEPT !.completed = FALSE])

get_status(f) == IF f.phase = "landed" THEN "landed" ELSE "in_flight"

get_position_data(f) ==
  [flight_number |-> f.flight_number,
   altitude      |-> f.altitude,
   speed         |-> f.speed,
   status        |-> get_status(f)]

\* send_update: the call goes out; ok says whether the answer was a 200
\* (anything else, a timeout or a refused connection returns False)
send_update(ok) ==
  /\ posted' = Append(posted, [data |-> get_position_data(simulator), ok |-> ok])
  /\ UNCHANGED <<active_flights, flight_logs, pc, data, existing_flight,
                 flight_data, clock, sent, applied, last>>

\* line 310: the first position; what send_update returns is not looked at
SendInitial(ok) ==
  /\ simulator.at = "start"
  /\ send_update(ok)
  /\ simulator' = [simulator EXCEPT
                     !.at = "sleep",
                     !.updates_sent = IF ok THEN @ + 1 ELSE @]

\* lines 314-317
UpdatePosition ==
  /\ simulator.at = "sleep"
  /\ simulator' = [update_position(simulator) EXCEPT !.at = "send"]
  /\ UNCHANGED <<active_flights, flight_logs, pc, data, existing_flight,
                 flight_data, clock, sent, applied, last, posted>>

\* lines 320-337
SendUpdate(ok) ==
  /\ simulator.at = "send"
  /\ send_update(ok)
  /\ simulator' = [simulator EXCEPT
                     !.at = IF ~ok THEN "stopped"
                            ELSE IF simulator.completed THEN "done"
                            ELSE "sleep",
                     !.updates_sent = IF ok THEN @ + 1 ELSE @]

\* ---------------------------------------------------------- specification
Bodies == GoodBodies \cup RepeatBodies \cup MissingBodies \cup MalformedBodies

\* the flight whose requests are served concurrently
ConcurrentIds == {"PK301"}

ConcurrentBodies ==
  {b \in GoodBodies : b["flight_number"].v \in ConcurrentIds}

IngestStep(p) ==
  \/ IngestWrite(p)
  \/ IngestReadBack(p)
  \/ IngestArchive(p)
  \/ IngestDelete(p)

\* Concurrent handler threads: ingests of one flight and tracks of its full
\* history, interleaved at every collection operation.
Next ==
  \E p \in Procs :
    \/ \E b \in ConcurrentBodies : IngestFind(p, b)
    \/ IngestStep(p)
    \/ \E fn \in ConcurrentIds : TrackFindActive(p, fn, NoTimestamp)
    \/ TrackFindLogs(p)

Spec == Init /\ [][Next]_vars

\* Requests served one at a time: every body, every flight, tracks with and
\* without a timestamp.
IngestReject(p) ==
  \E b \in Bodies : IngestMissingField(p, b) \/ IngestNotNumeric(p, b)

IngestStart(p) == \E b \in Bodies : IngestFind(p, b)

TrackStart(p) ==
  \E fn \in Ids, ts \in Timestamps \cup {NoTimestamp} : TrackFindActive(p, fn, ts)

SearchStart(p) == \E args \in SearchArgs : hybrid_search(p, args)

ListStart(p) ==
  get_active_flights(p) \/ \E args \in LogsArgs : get_flight_logs(p, args)

SeqNext ==
  \E p \in Procs :
    \/ Quiet /\ (IngestReject(p) \/ IngestStart(p) \/ TrackStart(p)
                 \/ SearchStart(p) \/ ListStart(p))
    \/ IngestStep(p)
    \/ TrackFindLogs(p)

SeqSpec == Init /\ [][SeqNext]_vars

\* The server started on a database whose log collection already holds
\* entries: the landings of earlier runs, oldest first, all before time 0.
MaxArchived == 51

LandingBody == Body("PK301", Sample1, "landed")

ArchivedBefore(n) ==
  [k \in 1..n |->
     log_entry("PK301",
               flight_doc("PK301", position_update(LandingBody), "landed",
                          k - n - 1),
               k - n - 1)]

LogsInit ==
  /\ active_flights = <<>>
  /\ \E n \in 0..MaxArchived : flight_logs = ArchivedBefore(n)
  /\ pc = [p \in Procs |-> "idle"]
  /\ data = [p \in Procs |-> NoData]
  /\ existing_flight = [p \in Procs |-> FALSE]
  /\ flight_data = [p \in Procs |-> <<>>]
  /\ clock = 0
  /\ sent = [id \in Ids |-> <<>>]
  /\ applied = {}
  /\ last = [kind |-> "none", code |-> 0]
  /\ simulator = NoFlight
  /\ posted = <<>>

\* listings and landings, served one at a time
LogsNext ==
  \E p \in Procs :
    \/ Quiet /\ (ListStart(p) \/ IngestFind(p, LandingBody))
    \/ IngestStep(p)

LogsSpec == LogsInit /\ [][LogsNext]_vars

\* Ingests served one at a time, where the delete of a landing can fail.
CrashNext ==
  \E p \in Procs :
    \/ Quiet /\ IngestStart(p)
    \/ IngestStep(p)
    \/ IngestDeleteFails(p)

CrashSpec == Init /\ [][CrashNext]_vars

\* One simulator thread flying one of the routes; every call it sends is
\* answered with a 200 or not.
ProducerInit ==
  /\ active_flights = <<>>
  /\ flight_logs = <<>>
  /\ pc = [p \in Procs |-> "idle"]
  /\ data = [p \in Procs |-> NoData]
  /\ existing_flight = [p \in Procs |-> FALSE]
  /\ flight_data = [p \in Procs |-> <<>>]
  /\ clock = 0
  /\ sent = [id \in Ids |-> <<>>]
  /\ applied = {}
  /\ last = [kind |-> "none", code |-> 0]
  /\ \E flight_info \in FLIGHT_ROUTES : simulator = FlightSimulator(flight_info)
  /\ posted = <<>>

ProducerNext ==
  \/ \E ok \in BOOLEAN : SendInitial(ok)
  \/ UpdatePosition
  \/ \E ok \in BOOLEAN : SendUpdate(ok)

ProducerSpec == ProducerInit /\ [][ProducerNext]_vars

\* =================================================================== claims
\* the samples accepted for an id, in arrival order
SentSamples(id) == [i \in 1..Len(sent[id]) |-> sent[id][i].position]

Terminals(id) == {i \in 1..Len(sent[id]) : sent[id][i].terminal}

ActiveDocs(id) == Matches(active_flights, id)

LogDocs(id) == Matches(flight_logs, id)

NewestLog(id) ==
  flight_logs[CHOOSE i \in LogDocs(id) : \A j \in LogDocs(id) : j <= i]

\* C1: with requests served one at a time, once the latest ingest for an id
\* was terminal and has returned, the id is not active, every terminal ingest
\* has added exactly one log entry, and the newest entry holds all samples
\* ingested for the id, with total_positions their number.
C1_TerminalArchivesEveryIngest ==
  \A id \in Ids :
    (Quiet /\ sent[id] # <<>> /\ sent[id][Len(sent[id])].terminal) =>
      /\ ActiveDocs(id) = {}
      /\ Cardinality(LogDocs(id)) = Cardinality(Terminals(id))
      /\ NewestLog(id).position_history = SentSamples(id)
      /\ NewestLog(id).total_positions = Len(sent[id])

\* C2: with requests served one at a time, after n non-terminal ingests for
\* an id that was in neither collection, the id has one active document whose
\* position_history is the n samples in arrival order and whose
\* current_position is the n-th.
C2_HistoryInArrivalOrder ==
  \A id \in Ids :
    (Quiet /\ sent[id] # <<>> /\ Terminals(id) = {}) =>
      /\ Cardinality(ActiveDocs(id)) = 1
      /\ \A i \in ActiveDocs(id) :
           /\ active_flights[i].position_history = SentSamples(id)
           /\ active_flights[i].current_position =
                sent[id][Len(sent[id])].position

\* two samples arrived with the later timestamp first
C2_Witness ==
  \E id \in Ids :
    /\ Quiet
    /\ Len(sent[id]) = 2
    /\ Terminals(id) = {}
    /\ sent[id][1].position.timestamp = "T1"
    /\ sent[id][2].position.timestamp = "T0"
    /\ ActiveDocs(id) # {}

\* C3: with requests served one at a time, an id that has a log entry has no
\* active document, and a track of it is answered from the logs with status
\* "completed".
C3_ArchivedNeverActiveAgain ==
  /\ \A id \in Ids : (Quiet /\ LogDocs(id) # {}) => ActiveDocs(id) = {}
  /\ (Quiet /\ last.kind = "track" /\ LogDocs(last.flight_number) # {}) =>
       /\ last.source = "logs"
       /\ last.at = NoTimestamp => last.status = "completed"

\* C4: the logs hold at most one entry per id.
C4_OneLogEntryPerId == \A id \in Ids : Cardinality(LogDocs(id)) <= 1

\* C5: the active collection holds at most one document per id, also while
\* ingests for the same id run concurrently.
C5_OneActiveDocPerId == \A id \in Ids : Cardinality(ActiveDocs(id)) <= 1

InHistory(coll, fn, pos) ==
  \E i \in Matches(coll, fn) :
    \E k \in DOMAIN coll[i].position_history :
      coll[i].position_history[k] = pos

\* C6: the sample of an ingest that returned 200 is in the position_history
\* of a document of its id, active or logged.
C6_NoSampleLost ==
  (last.kind = "ingest" /\ last.code = 200) =>
    LET fn  == last.body["flight_number"].v
        pos == position_update(last.body)
    IN  InHistory(active_flights, fn, pos) \/ InHistory(flight_logs, fn, pos)

\* C7: once the first ingest of an id has written, the id is in the active
\* collection or in the logs in every state, also between the log insert and
\* the active delete; a track that started after that write never answers
\* "Flight not found".
C7_NeverInNeitherStore ==
  /\ \A id \in applied : ActiveDocs(id) # {} \/ LogDocs(id) # {}
  /\ (last.kind = "track" /\ last.known) =>
       ~(last.code = 404 /\ last.error = "Flight not found")

\* an ingest sits between its log insert and its active delete, the id is in
\* both collections, and a track of that id was answered
C7_Witness ==
  \E p \in Procs :
    /\ pc[p] = "delete"
    /\ LET fn == data[p].body["flight_number"].v
       IN  /\ ActiveDocs(fn) # {}
           /\ LogDocs(fn) # {}
           /\ last.kind = "track"
           /\ last.flight_number = fn
           /\ last.known
           /\ last.code = 200

\* C8: every active document has a non-empty position_history whose last
\* element is its current_position, in every state between the steps of
\* concurrent handlers; a track answered from the active collection shows
\* the same.
C8_CurrentIsLastOfHistory ==
  /\ \A i \in DOMAIN active_flights :
       LET d == active_flights[i]
       IN  /\ d.position_history # <<>>
           /\ d.current_position = d.position_history[Len(d.position_history)]
  /\ (last.kind = "track" /\ last.code = 200 /\ last.at = NoTimestamp
        /\ last.source = "active") =>
       /\ last.position_history # <<>>
       /\ last.current_position =
            last.position_history[Len(last.position_history)]

\* a document updated at least once, while another handler is in progress
C8_Witness ==
  /\ \E i \in DOMAIN active_flights :
       Len(active_flights[i].position_history) >= 2
  /\ ~Quiet

\* C9: an ingest whose body lacks a required field is never accepted; it is
\* answered 400 naming a field the body lacks, and the step that answers it
\* leaves both collections unchanged.
C9_MissingFieldRejected ==
  /\ [](\A p \in Procs :
          data[p].kind = "ingest" => HasAllRequired(data[p].body))
  /\ [][(last' # last /\ last'.kind = "ingest"
                      /\ ~HasAllRequired(last'.body)) =>
          /\ last'.code = 400
          /\ last'.field \in RequiredSet \ DOMAIN last'.body
          /\ stores' = stores]_vars

\* a body lacking two fields was rejected while both collections hold
\* documents
C9_Witness ==
  /\ last.kind = "ingest"
  /\ last.code = 400
  /\ Cardinality(RequiredSet \ DOMAIN last.body) = 2
  /\ last.field = "latitude"
  /\ active_flights # <<>>
  /\ flight_logs # <<>>

\* C10: an ingest whose body has every required field and a numeric field
\* that float() rejects is answered with a 4xx code.
C10_NotNumericIs4xx ==
  (last.kind = "ingest" /\ HasAllRequired(last.body)
     /\ ~Coercible(last.body)) =>
    (last.code >= 400 /\ last.code <= 499)

\* the document a track of fn is answered from: the first active match, or
\* else the first logged match
FirstActive(fn) == active_flights[FirstMatch(active_flights, fn)]

FirstLogged(fn) == flight_logs[FirstMatch(flight_logs, fn)]

\* a track has just been answered and no request has been served since
TrackAnswered == Quiet /\ last.kind = "track"

\* C11: a track is answered from the active document when the id has one
\* (status and history are that document's), from the logged document with
\* status "completed" only when it has none, and with 404 "Flight not found"
\* when the id is in neither collection.
C11_TrackLooksInActiveFirst ==
  TrackAnswered =>
    LET fn == last.flight_number
    IN  /\ ActiveDocs(fn) # {} =>
             /\ last.source = "active"
             /\ last.at = NoTimestamp =>
                  /\ last.status = FirstActive(fn).status
                  /\ last.position_history = FirstActive(fn).position_history
        /\ (ActiveDocs(fn) = {} /\ LogDocs(fn) # {}) =>
             /\ last.source = "logs"
             /\ last.at = NoTimestamp =>
                  /\ last.status = "completed"
                  /\ last.position_history = FirstLogged(fn).position_history
        /\ (ActiveDocs(fn) = {} /\ LogDocs(fn) = {}) =>
             /\ last.code = 404
             /\ last.error = "Flight not found"

\* the id is in both collections, with different histories, and the track
\* shows the active one
C11_Witness ==
  /\ TrackAnswered
  /\ last.at = NoTimestamp
  /\ ActiveDocs(last.flight_number) # {}
  /\ LogDocs(last.flight_number) # {}
  /\ FirstActive(last.flight_number).position_history #
       FirstLogged(last.flight_number).position_history
  /\ last.code = 200

\* the history a track of fn reads: the active document's, or else the
\* logged one's
TrackedHistory(fn) ==
  IF ActiveDocs(fn) # {} THEN FirstActive(fn).position_history
  ELSE FirstLogged(fn).position_history

\* C12: a track with a timestamp T of an id that is in a collection returns
\* the earliest-arrived position of that id's own history whose timestamp is
\* T; when the history has none it answers 404 "No position data for that
\* timestamp", which is not the "Flight not found" of an unknown id.
C12_TrackAtTimestamp ==
  (TrackAnswered /\ last.at # NoTimestamp
     /\ (ActiveDocs(last.flight_number) # {} \/ LogDocs(last.flight_number) # {})) =>
    LET hist == TrackedHistory(last.flight_number)
    IN  IF \E i \in DOMAIN hist : hist[i].timestamp = last.at
        THEN /\ last.code = 200
             /\ last.timestamp = last.at
             /\ \E i \in DOMAIN hist :
                  /\ hist[i] = last.position
                  /\ hist[i].timestamp = last.at
                  /\ \A j \in 1..(i - 1) : hist[j].timestamp # last.at
        ELSE /\ last.code = 404
             /\ last.error = "No position data for that timestamp"
             /\ last.error # "Flight not found"

\* two different positions carry the timestamp asked for, and the first one
\* was returned
C12_Witness ==
  /\ TrackAnswered
  /\ last.at = "T0"
  /\ last.code = 200
  /\ LET hist == TrackedHistory(last.flight_number)
     IN  /\ Len(hist) = 2
         /\ hist[1].timestamp = "T0"
         /\ hist[2].timestamp = "T0"
         /\ hist[1] # hist[2]
         /\ last.position = hist[1]

\* C13: a track without a timestamp returns the whole position_history of
\* the document it read, total_updates is its length, and current_position
\* is the latest sample for an active document and None for a logged one.
C13_TrackFullView ==
  (TrackAnswered /\ last.at = NoTimestamp /\ last.code = 200) =>
    LET hist == TrackedHistory(last.flight_number)
    IN  /\ last.position_history = hist
        /\ last.total_updates = Len(hist)
        /\ ActiveDocs(last.flight_number) # {} =>
             last.current_position = hist[Len(hist)]
        /\ ActiveDocs(last.flight_number) = {} =>
             last.current_position = None

\* a logged flight with one sample was tracked while another flight was
\* active
C13_Witness ==
  /\ TrackAnswered
  /\ last.at = NoTimestamp
  /\ last.code = 200
  /\ ActiveDocs(last.flight_number) = {}
  /\ last.total_updates = 1
  /\ last.current_position = None
  /\ active_flights # <<>>

\* the text occurs in the flight number as a literal substring, letters
\* compared without regard to case
ContainsText(id, text) ==
  \E off \in 0..(Len(Chars[id]) - Len(text)) :
    \A k \in 1..Len(text) : Lower(text[k]) = Lower(Chars[id][off + k])

InRange(x, args, lo, hi) ==
  /\ lo \in DOMAIN args => x >= NumericStrings[args[lo]]
  /\ hi \in DOMAIN args => x <= NumericStrings[args[hi]]

\* an active document satisfies every criterion supplied
SatisfiesAll(args, d) ==
  /\ "flight_number" \in DOMAIN args =>
       ContainsText(d.flight_number, args["flight_number"])
  /\ "status" \in DOMAIN args => d.status = args["status"]
  /\ InRange(d.current_position.altitude, args, "min_altitude", "max_altitude")
  /\ InRange(d.current_position.speed, args, "min_speed", "max_speed")

\* a logged document satisfies the id criterion, if one is supplied
SatisfiesId(args, d) ==
  "flight_number" \in DOMAIN args =>
    ContainsText(d.flight_number, args["flight_number"])

ExpectedResults(args) ==
  LET act    == SelectSeq(active_flights, LAMBDA d : SatisfiesAll(args, d))
      logged == SelectSeq(flight_logs, LAMBDA d : SatisfiesId(args, d))
  IN  act \o (IF "status" \notin DOMAIN args \/ args["status"] = "completed"
              THEN [i \in DOMAIN logged |->
                      WithKey(logged[i], "status", "completed")]
              ELSE <<>>)

SearchAnswered == Quiet /\ last.kind = "search" /\ last.code = 200

HasDot(text) == \E k \in DOMAIN text : text[k] = "."

\* C14: a search returns the active documents that satisfy all the criteria
\* supplied (id substring, exact status, inclusive altitude and speed ranges
\* on current_position), followed, when no status is supplied or it is
\* "completed", by the logged documents that satisfy the id substring alone,
\* each tagged "completed".
C14_SearchReturnsExactly ==
  SearchAnswered => last.results = ExpectedResults(last.args)

\* the same, for search texts without a "."
SearchExactForPlainText ==
  (SearchAnswered /\ ("flight_number" \in DOMAIN last.args
                        => ~HasDot(last.args["flight_number"]))) =>
    last.results = ExpectedResults(last.args)

\* an altitude at the lower end of the range asked for is found, while a
\* flight is logged
SearchRangeReached ==
  /\ SearchAnswered
  /\ "min_altitude" \in DOMAIN last.args
  /\ Len(last.results) = 2
  /\ last.results[1].current_position.altitude = 35000
  /\ last.results[2].status = "completed"

DocsOf(coll, id) == SelectSeq(coll, LAMBDA d : d.flight_number = id)

\* a handler thread is serving an ingest for the id
Serving(id) ==
  \E p \in Procs :
    data[p].kind = "ingest" /\ data[p].body["flight_number"].v = id

ServingLanding(id) ==
  \E p \in Procs :
    /\ data[p].kind = "ingest"
    /\ data[p].body["flight_number"].v = id
    /\ StatusOf(data[p].body) = "landed"

\* the step from `before` to `after` inserted one document holding pos alone,
\* or pushed pos onto the history of one document and made it current
OneUpsert(before, after, pos) ==
  \/ /\ Len(after) = Len(before) + 1
     /\ SubSeq(after, 1, Len(before)) = before
     /\ after[Len(after)].position_history = <<pos>>
     /\ after[Len(after)].current_position = pos
  \/ /\ Len(after) = Len(before)
     /\ \E i \in DOMAIN before :
          /\ after[i].position_history = Append(before[i].position_history, pos)
          /\ after[i].current_position = pos
          /\ \A j \in DOMAIN before \ {i} : after[j] = before[j]

\* C15: with requests served one at a time, every step leaves the active
\* documents and the log entries of every id other than the one being
\* ingested as they were; the write step of an ingest is one upsert of its
\* id; a log entry is added, and an active document removed, only by an
\* ingest whose status is "landed", the log entry first.
C15_IngestTouchesOnlyItsId ==
  [][/\ \A id \in Ids :
          ~Serving(id) =>
            /\ DocsOf(active_flights', id) = DocsOf(active_flights, id)
            /\ DocsOf(flight_logs', id) = DocsOf(flight_logs, id)
     /\ \A p \in Procs :
          (pc[p] = "write" /\ pc'[p] # "write") =>
            LET id == data[p].body["flight_number"].v
            IN  /\ OneUpsert(DocsOf(active_flights, id),
                             DocsOf(active_flights', id),
                             position_update(data[p].body))
                /\ flight_logs' = flight_logs
     /\ \A id \in Ids :
          DocsOf(flight_logs', id) # DocsOf(flight_logs, id) =>
            /\ ServingLanding(id)
            /\ Len(DocsOf(flight_logs', id)) = Len(DocsOf(flight_logs, id)) + 1
            /\ active_flights' = active_flights
     /\ \A id \in Ids :
          Len(DocsOf(active_flights', id)) < Len(DocsOf(active_flights, id)) =>
            /\ ServingLanding(id)
            /\ LogDocs(id) # {}
            /\ Len(DocsOf(active_flights', id)) =
                 Len(DocsOf(active_flights, id)) - 1
    ]_vars

\* a flight has landed and been moved to the logs while another flight is
\* active
C15_Witness ==
  /\ Quiet
  /\ last.kind = "ingest"
  /\ last.code = 200
  /\ last.message = "Flight landed and moved to logs"
  /\ \E id \in Ids :
       /\ id # last.body["flight_number"].v
       /\ ActiveDocs(id) # {}

\* C16: no step of an ingest, track, listing or search changes or removes a
\* log entry: every entry keeps its place, its flight_number, history,
\* flight_start, flight_end and total_positions.
C16_LogsAppendOnly ==
  [][\A i \in DOMAIN flight_logs :
       /\ i \in DOMAIN flight_logs'
       /\ flight_logs'[i] = flight_logs[i]]_vars

\* a second landing of the same id has been logged next to the first, and a
\* search has returned both entries
C16_Witness ==
  /\ Quiet
  /\ Len(flight_logs) = 2
  /\ flight_logs[1].flight_number = flight_logs[2].flight_number
  /\ flight_logs[1].flight_end # flight_logs[2].flight_end
  /\ last.kind = "search"
  /\ last.code = 200
  /\ last.count = 2

ReadKinds == {"active", "logs", "track", "search"}

\* the step answers a read request, or takes one up
ReadStep ==
  \/ last' # last /\ last'.kind \in ReadKinds
  \/ \E p \in Procs : data'[p] # data[p] /\ data'[p].kind = "track"

\* C17: no step of list_active, list_logs, track or search changes a
\* collection, and a listing returns the collection as it is (the logs up to
\* LogsLimit entries), so that a second listing with no ingest in between
\* returns the same.
C17_ReadsChangeNothing ==
  /\ []((Quiet /\ last.kind = "active") =>
          /\ last.active_flights = active_flights
          /\ last.count = Len(active_flights))
  /\ []((Quiet /\ last.kind = "logs" /\ Len(flight_logs) <= LogsLimit) =>
          /\ last.flight_logs = flight_logs
          /\ last.count = Len(flight_logs))
  /\ [][ReadStep => stores' = stores]_vars

\* the logs were listed while both collections hold documents
C17_Witness ==
  /\ Quiet
  /\ last.kind = "logs"
  /\ last.count = 1
  /\ active_flights # <<>>

\* the limit the caller supplied, 50 when there is none
SuppliedLimits == [s \in {"1", "60"} |-> IF s = "1" THEN 1 ELSE 60]

SuppliedLimit(args) ==
  IF "limit" \in DOMAIN args THEN SuppliedLimits[args["limit"]] ELSE LogsLimit

LogsAnswered == Quiet /\ last.kind = "logs"

OfNewestFlight(id) ==
  {i \in LogDocs(id) : flight_logs[i].flight_start = NewestLog(id).flight_start}

\* this step answers a landing that repeats the landing whose delete just failed
Reissued(id) ==
  /\ last.kind = "ingest" /\ last.code = 500 /\ last.error = DeleteError
  /\ last.body["flight_number"].v = id
  /\ last'.kind = "ingest" /\ last'.code = 200
  /\ last'.body = last.body

\* C19: when the delete of a landing failed after its log entry was inserted
\* and the same landing is sent again, the flight ends as after an
\* uninterrupted landing: not active, and one log entry for the flight.
C19_ReissueConverges ==
  [][\A id \in Ids :
       Reissued(id) =>
         /\ (ActiveDocs(id) = {})'
         /\ (Cardinality(OfNewestFlight(id)) = 1)']_vars

\* C20: when no ingest is in progress, no document of the active collection
\* has status "landed", also after ingests of the same id ran concurrently.
C20_NoLandedWhenQuiet ==
  Quiet => \A i \in DOMAIN active_flights : active_flights[i].status # "landed"

\* the status a body carries, "in_flight" when it carries none
CarriedStatus(b) == IF "status" \in DOMAIN b THEN b["status"].v ELSE "in_flight"

\* handler p writes its flight's document in this step
Writes(p) == pc[p] = "write" /\ pc'[p] # "write"

\* the flight of the call p is serving was removed from the active collection
\* or a log entry was added in this step
Archives ==
  \/ Len(flight_logs') > Len(flight_logs)
  \/ Len(active_flights') < Len(active_flights)

\* C21: with requests served one at a time, the write of an ingest leaves the
\* flight's document with the status the call carries, "in_flight" when it
\* carries none, whatever status was stored before; the call goes on to
\* archive exactly when its own status is "landed", and the logs grow and an
\* active document goes only in a call whose status is "landed".
C21_StatusStoredAndLandedArchives ==
  /\ [][\A p \in Procs :
          Writes(p) =>
            LET b  == data[p].body
                fn == b["flight_number"].v
            IN  /\ Matches(active_flights', fn) # {}
                /\ \A i \in Matches(active_flights', fn) :
                     active_flights'[i].status = CarriedStatus(b)
                /\ (pc'[p] = "landed") <=> (CarriedStatus(b) = "landed")]_vars
  /\ [][Archives =>
          \E p \in Procs : /\ data[p].kind = "ingest"
                           /\ CarriedStatus(data[p].body) = "landed"]_vars
  /\ []((Quiet /\ last.kind = "ingest" /\ last.code = 200) =>
          LET fn == last.body["flight_number"].v
          IN  IF CarriedStatus(last.body) = "landed"
              THEN /\ last.message = "Flight landed and moved to logs"
                   /\ ActiveDocs(fn) = {}
                   /\ LogDocs(fn) # {}
              ELSE /\ last.message = "Flight data ingested successfully"
                   /\ \A i \in ActiveDocs(fn) :
                        active_flights[i].status = CarriedStatus(last.body)
                   /\ ActiveDocs(fn) # {})

\* an ingest without status was answered for a flight stored as "delayed"
\* before, and the flight is "in_flight" now
C21_Witness ==
  /\ Quiet
  /\ last.kind = "ingest" /\ last.code = 200
  /\ "status" \notin DOMAIN last.body
  /\ \E i \in ActiveDocs(last.body["flight_number"].v) :
       /\ active_flights[i].status = "in_flight"
       /\ Len(active_flights[i].position_history) = 2
       /\ sent[last.body["flight_number"].v][1].terminal = FALSE
       /\ active_flights[i].position_history[1].timestamp = "T1"

\* the simulator's calls that carried "landed"
LandedCalls == {i \in DOMAIN posted : posted[i].data.status = "landed"}

FailedCalls == {i \in DOMAIN posted : ~posted[i].ok}

\* the simulator thread has left its loop
ThreadOver == simulator.at \in {"stopped", "done"}

\* at most one call carries "landed", it is the last call, and a flight all
\* of whose calls were answered with 200 ends with it
EndsWithOneLanded ==
  /\ Cardinality(LandedCalls) <= 1
  /\ \A i \in LandedCalls : i = Len(posted)
  /\ (ThreadOver /\ FailedCalls = {}) => LandedCalls = {Len(posted)}

\* C22: the simulator's calls for a flight end with exactly one call carrying
\* "landed" and none follows it; no call follows a failed call (no retry, and
\* the flight's sending stops at the first failure).
C22_ProducerStream ==
  /\ EndsWithOneLanded
  /\ \A i \in FailedCalls : i = Len(posted)

\* what holds: the stream ends with the one "landed" call, and no call follows
\* a failed call other than the first one
ProducerStopsAfterFailedLoopSend ==
  /\ EndsWithOneLanded
  /\ \A i \in FailedCalls : i = 1 \/ i = Len(posted)
  /\ simulator.at = "stopped" <=> (Len(posted) > 1 /\ ~posted[Len(posted)].ok)

\* a flight flew to its landing with every call answered
ProducerLanded ==
  /\ simulator.at = "done"
  /\ FailedCalls = {}
  /\ simulator.updates_sent = Len(posted)

\* the ids of the active documents, and of the log entries, among the results
ActiveIdsIn(results) ==
  {results[i].flight_number :
     i \in {j \in DOMAIN results : "current_position" \in DOMAIN results[j]}}

LoggedIdsIn(results) ==
  {results[i].flight_number :
     i \in {j \in DOMAIN results : "flight_end" \in DOMAIN results[j]}}

\* a search by flight number alone was answered
SearchByIdAnswered == SearchAnswered /\ DOMAIN last.args = {"flight_number"}

IdCriterionIsSubstring ==
  LET text == last.args["flight_number"]
  IN  /\ ActiveIdsIn(last.results) =
           {id \in Ids : ActiveDocs(id) # {} /\ ContainsText(id, text)}
      /\ LoggedIdsIn(last.results) =
           {id \in Ids : LogDocs(id) # {} /\ ContainsText(id, text)}

\* C23: a search by flight number returns, from the active collection and
\* from the logs, exactly the flights whose number contains the text as a
\* literal substring, letter case ignored, also for a text with a ".".
C23_IdCriterionIsLiteralSubstring ==
  SearchByIdAnswered => IdCriterionIsSubstring

\* the same, for the texts without a "."
IdCriterionForPlainText ==
  (SearchByIdAnswered /\ ~HasDot(last.args["flight_number"])) =>
    IdCriterionIsSubstring

====
